---- MODULE Spec2Model ----
(***************************************************************************)
(* Model of bot.py, the Telegram M3U8 downloader: the message cursor, the  *)
(* job queue, the retry loop around download_and_merge and the scratch     *)
(* files of one download attempt.                                          *)
(*                                                                         *)
(* Python strings are sequences of one-character strings, so that strip,   *)
(* split, startswith, endswith and re.sub are computed, not assumed.       *)
(***************************************************************************)
EXTENDS Integers, Sequences, FiniteSets, TLC

\* ------------------------------------------------------------------ bounds
\* at most this many updates are ever posted to the feed
MaxMsgs == 2
\* --------------------------------------------------------------- constants
MAX_RETRIES == 3
\* the argument of time.sleep after a failed attempt
RETRY_DELAY == 5

\* Python's None where a str is expected: a sequence that is no text (its one
\* element is not a character), so it compares with texts without being one
None == <<"None">>

\* Python's None where an update_id is expected (update ids are positive)
NoneId == -1

\* ---------------------------------------------------------- python strings
HTTP == <<"h", "t", "t", "p">>
DOT_M3U8 == <<".", "m", "3", "u", "8">>
DOT_MP4 == <<".", "m", "p", "4">>
DOT_TS == <<".", "t", "s">>

\* the characters str.strip() removes (those of them the model's texts use)
Whitespace == {" ", "\n", "\t"}

\* the character class of the regular expression in clean_filename
IllegalChars == {"\\", "/", "*", "?", ":", "\"", "<", ">", "|"}

startswith(s, p) == Len(s) >= Len(p) /\ SubSeq(s, 1, Len(p)) = p

endswith(s, p) == Len(s) >= Len(p) /\ SubSeq(s, Len(s) - Len(p) + 1, Len(s)) = p

RECURSIVE lstrip(_)
lstrip(s) == IF s # <<>> /\ Head(s) \in Whitespace THEN lstrip(Tail(s)) ELSE s

RECURSIVE rstrip(_)
rstrip(s) ==
    IF s # <<>> /\ s[Len(s)] \in Whitespace THEN rstrip(SubSeq(s, 1, Len(s) - 1)) ELSE s

strip(s) == rstrip(lstrip(s))

Contains(s, c) == \E i \in 1..Len(s) : s[i] = c

FirstIndex(s, c) == CHOOSE i \in 1..Len(s) : s[i] = c /\ \A j \in 1..(i - 1) : s[j] # c

LastIndex(s, c) == CHOOSE i \in 1..Len(s) : s[i] = c /\ \A j \in (i + 1)..Len(s) : s[j] # c

\* text.split(c, 1) for a text that contains c
split1(s, c) == <<SubSeq(s, 1, FirstIndex(s, c) - 1), SubSeq(s, FirstIndex(s, c) + 1, Len(s))>>

\* s.rsplit(c, 1)[0]
rsplit1_head(s, c) == IF Contains(s, c) THEN SubSeq(s, 1, LastIndex(s, c) - 1) ELSE s

\* a sanitizer that trims and removes nothing
clean_filename_StripOnly(name) == strip(name)

\* re.sub(r'[\\/*?:"<>|]', "", name).strip()
clean_filename(name) == strip(SelectSeq(name, LAMBDA ch : ch \notin IllegalChars))

\* a check of the link's start alone
IsM3u8Link_PrefixOnly(link) == startswith(link, HTTP)

\* the two checks of lines 138 and 144
IsM3u8Link(link) == startswith(link, HTTP) /\ endswith(link, DOT_M3U8)

\* parse_message_text(text): <<link, filename_or_None>>, or <<None, None>>
parse_message_text(text) ==
    IF Contains(text, "|")
    THEN LET parts == split1(text, "|")
             name  == clean_filename(parts[1])
             link  == strip(parts[2])
         IN  IF IsM3u8Link(link) THEN <<link, name \o DOT_MP4>> ELSE <<None, None>>
    ELSE LET link == strip(text)
         IN  IF IsM3u8Link(link) THEN <<link, None>> ELSE <<None, None>>

\* Python truthiness of a str-or-None value (lines 265 and 275)
Truthy(v) == v # None /\ v # <<>>

\* ------------------------------------------------------------ manifest text
\* m3u8_content.splitlines(), the line separator being "\n"
RECURSIVE splitlines(_)
splitlines(s) ==
    IF s = <<>> THEN <<>>
    ELSE IF ~Contains(s, "\n") THEN <<s>>
    ELSE <<SubSeq(s, 1, FirstIndex(s, "\n") - 1)>>
             \o splitlines(SubSeq(s, FirstIndex(s, "\n") + 1, Len(s)))

\* a loop that skips the empty lines only
IsSkippedLine_EmptyOnly(line) == line = <<>>

\* line 186: the lines the loop skips, after line.strip()
IsSkippedLine(line) == line = <<>> \/ startswith(line, <<"#">>)

\* lines 182-191: the ordered segment URLs of a manifest fetched from m3u8_url
ChunkUrls(content, url) ==
    LET base_url == rsplit1_head(url, "/") \o <<"/">>
        lines    == splitlines(content)
        stripped == [i \in 1..Len(lines) |-> strip(lines[i])]
        kept     == SelectSeq(stripped, LAMBDA l : ~IsSkippedLine(l))
    IN  [i \in 1..Len(kept) |->
            IF startswith(kept[i], HTTP) THEN kept[i] ELSE base_url \o kept[i]]

\* ------------------------------------------------------- segment file names
\* the file aria2c saves a URL to under -d chunks: the URL's last path segment
Basename(url) ==
    IF Contains(url, "/") THEN SubSeq(url, LastIndex(url, "/") + 1, Len(url)) ELSE url

\* the code points of the characters segment file names are made of
Ord == [c \in {".", "a", "b", "s", "t"} |->
          CASE c = "." -> 46 [] c = "a" -> 97 [] c = "b" -> 98
            [] c = "s" -> 115 [] c = "t" -> 116]

\* x sorts before y: the order in which the shell expands a wildcard
RECURSIVE SortsBefore(_, _)
SortsBefore(x, y) ==
    IF y = <<>> THEN FALSE
    ELSE IF x = <<>> THEN TRUE
    ELSE IF Head(x) # Head(y) THEN Ord[Head(x)] < Ord[Head(y)]
    ELSE SortsBefore(Tail(x), Tail(y))

\* the names of a set, sorted
RECURSIVE Sorted(_)
Sorted(names) ==
    IF names = {} THEN <<>>
    ELSE LET first == CHOOSE x \in names : \A y \in names \ {x} : SortsBefore(x, y)
         IN  <<first>> \o Sorted(names \ {first})

\* line 209: what the shell makes of chunks/*.ts, the files of the directory
\* whose names end in ".ts", sorted by name
GlobTs(dir) == Sorted({n \in dir : endswith(n, DOT_TS)})

\* ------------------------------------------------------------------ inputs
LINK_A == HTTP \o <<"/", "a">> \o DOT_M3U8
LINK_B == HTTP \o <<"/", "b">> \o DOT_M3U8

\* the texts chat messages carry
TXT_PLAIN     == <<" ">> \o LINK_A \o <<"\n">>
TXT_LABELLED  == <<"L", ":", " ", "|", " ">> \o LINK_B
TXT_NOT_LINK  == <<"n", "o">>
TXT_BAD_LABEL == <<"L", "|">> \o HTTP \o <<"/", "a">>

MsgTexts == {TXT_PLAIN, TXT_LABELLED, TXT_NOT_LINK, TXT_BAD_LABEL}

\* the values of the environment variable BOT_TOKEN: not set, empty, the
\* token the server issued for the bot, a text that is no token
TOKEN == <<"1", ":", "a">>

Tokens == {None, <<>>, TOKEN, <<"x">>}

Digits == {"0", "1", "2", "3", "4", "5", "6", "7", "8", "9"}

\* the values of the environment variable CHAT_ID
ChatIds == {None, <<>>, <<"4", "2">>, <<"4", "x">>}

\* the manifests a link can serve
M_BLANK    == <<"#", "E", "\n", " ", "\n", "\n", "#">>
M_RELATIVE == <<" ", "#", "E", "\n", "b">> \o DOT_TS \o <<"\n", " ", "a">> \o DOT_TS
                  \o <<"\n">>
M_ABSOLUTE == <<"\n">> \o HTTP \o <<"/", "s">> \o DOT_TS

Manifests == {<<>>, M_BLANK, M_RELATIVE, M_ABSOLUTE}

\* the scratch artifacts, in the order the finally block removes them
CleanupOrder == <<"chunks", "temp.ts", "playlist.m3u8", "chunks.txt", "output.mp4">>

Scratch == {CleanupOrder[i] : i \in DOMAIN CleanupOrder}

\* ------------------------------------------------------------------- state
VARIABLES
    feed,            \* the server's updates, oldest first: [update_id, has_text, text]
    pc,              \* where the process (main_loop, download_and_merge) stands
    BOT_TOKEN,       \* the two environment variables (None: not set)
    CHAT_ID,
    exit_status,     \* the status of sys.exit (NoneId: the process has not exited)
    updates,         \* the result of the get_updates() call being handled
    last_update_id,  \* the cursor
    queue,           \* list of <<link, filename_or_None>>
    m3u8_url,        \* the job being processed (None: none)
    filename,
    attempt,
    ok,              \* what download_and_merge returns / returned
    success,
    m3u8_content,    \* locals of download_and_merge
    chunk_urls,
    fs,              \* the scratch artifacts that exist in the working directory
    chunks,          \* the names of the files in chunks/
    temp_ts,         \* the segment files temp.ts was made of by this attempt, in
                     \* the order of their concatenation
    drive,           \* the files under DRIVE_FOLDER: [name, job: the number of the
                     \* job whose output the file holds]
    \* history, read by the properties only
    send_failed,     \* requests.post raised in a send_telegram_message call of
                     \* the last step of the process
    poll_failed,     \* the get_updates() call of this iteration raised (until
                     \* the queue step of the iteration has run)
    iter_dequeued,   \* how many jobs had been popped when this iteration of the
                     \* while loop began
    historical,      \* how many updates the feed held when the bot started
    enqueued,        \* every job appended to the queue, in order: [uid, job]
    dequeued,        \* every job popped from the queue, in order
    finished,        \* how many popped jobs reached their terminal notification
    queuedNotes,     \* the "Link added to queue" notifications: [uid, pos, total]
    bootLog,         \* the "Bot is active" notifications
    jobLog,          \* notifications, download calls and sleeps of the current job
    attemptsLog,     \* one record per returned download_and_merge call of the job:
                     \* [blank: it fetched a manifest of blank and "#" lines only,
                     \*  ok: what it returned]
    saved,           \* one record per job that ended in success: [name, job]
    tools            \* the external tools the call has invoked, until its result
                     \* is consumed

vars == <<feed, pc, BOT_TOKEN, CHAT_ID, exit_status, updates, last_update_id, queue,
          m3u8_url, filename, attempt, ok, success, m3u8_content, chunk_urls, fs,
          chunks, temp_ts, drive, send_failed, poll_failed, iter_dequeued,
          historical, enqueued, dequeued, finished, queuedNotes, bootLog, jobLog,
          attemptsLog, saved, tools>>

botVars == <<pc, BOT_TOKEN, CHAT_ID, exit_status, updates, last_update_id, queue,
             m3u8_url, filename, attempt, ok, success, m3u8_content, chunk_urls, fs,
             chunks, temp_ts, drive, send_failed, poll_failed, iter_dequeued,
             historical, enqueued, dequeued, finished, queuedNotes, bootLog, jobLog,
             attemptsLog, saved, tools>>

loopVars == <<updates, last_update_id, queue, historical, enqueued, dequeued,
              finished, queuedNotes>>

jobVars == <<m3u8_url, filename, attempt, success>>

dmVars == <<m3u8_content, chunk_urls, fs, chunks, temp_ts, drive, tools, ok>>

\* what one step each writes: the feed (a new message), exit_status (the
\* credential checks), bootLog (the startup), saved (a success) and
\* iter_dequeued (the end of an iteration)
frame == <<feed, BOT_TOKEN, CHAT_ID, exit_status, bootLog, saved, iter_dequeued>>

Init ==
    /\ feed = <<>>
    /\ pc = "boot"
    /\ BOT_TOKEN \in Tokens
    /\ CHAT_ID \in ChatIds
    /\ exit_status = NoneId
    /\ updates = <<>>
    /\ last_update_id = NoneId
    /\ queue = <<>>
    /\ m3u8_url = None
    /\ filename = None
    /\ attempt = 0
    /\ ok = FALSE
    /\ success = FALSE
    /\ m3u8_content = None
    /\ chunk_urls = <<>>
    /\ fs = {}
    /\ chunks = {}
    /\ temp_ts = <<>>
    /\ drive = {}
    /\ send_failed = FALSE
    /\ poll_failed = FALSE
    /\ iter_dequeued = 0
    /\ historical = 0
    /\ enqueued = <<>>
    /\ dequeued = <<>>
    /\ finished = 0
    /\ queuedNotes = <<>>
    /\ bootLog = <<>>
    /\ jobLog = <<>>
    /\ attemptsLog = <<>>
    /\ saved = <<>>
    /\ tools = {}

\* ------------------------------------------------------------- environment
\* a chat message (with or without text) reaches the server; its update_id is
\* the next one. The bot reads the feed in get_updates only, so a message that
\* arrives at any moment between two calls arrives, for the bot, before the
\* second: messages are posted while the bot is about to call get_updates
NewMessage ==
    /\ Len(feed) < MaxMsgs
    /\ pc \in {"startup", "poll"}
    /\ \E has_text \in BOOLEAN :
         \E text \in (IF has_text THEN MsgTexts ELSE {<<>>}) :
            feed' = Append(feed, [update_id |-> Len(feed) + 1,
                                  has_text |-> has_text, text |-> text])
    /\ UNCHANGED botVars

\* the "result" of the server's answer to getUpdates: the updates, or none in
\* the error object that answers a token the server has not issued
Result == IF BOT_TOKEN = TOKEN THEN feed ELSE <<>>

\* ------------------------------------------------------- credential checks
\* a check that takes any text for a number
IsInt_Any(s) == TRUE

\* line 85: int(s) does not raise. s is white space, an optional sign and
\* digits (with single underscores between digits), white space
IsInt(s) ==
    LET t    == strip(s)
        body == IF t # <<>> /\ Head(t) \in {"+", "-"} THEN Tail(t) ELSE t
    IN  /\ body # <<>>
        /\ \A i \in DOMAIN body :
              \/ body[i] \in Digits
              \/ /\ body[i] = "_"
                 /\ 1 < i /\ i < Len(body)
                 /\ body[i - 1] \in Digits /\ body[i + 1] \in Digits

\* lines 45-49: an unset or empty variable gives None
get_env_secret(v) == IF v # None /\ v # <<>> THEN v ELSE None

\* lines 79-88: neither check exits
CredentialsPass(token, chat) ==
    /\ get_env_secret(token) # None
    /\ get_env_secret(chat) # None
    /\ IsInt(get_env_secret(chat))

\* lines 76-90: the module's top level reads and checks the two variables
CheckCredentials ==
    /\ pc = "boot"
    /\ IF CredentialsPass(BOT_TOKEN, CHAT_ID)
       THEN pc' = "startup" /\ exit_status' = exit_status
       ELSE pc' = "exit" /\ exit_status' = 1
    /\ UNCHANGED <<feed, BOT_TOKEN, CHAT_ID, bootLog, saved, iter_dequeued,
                   send_failed, poll_failed, loopVars, jobLog, attemptsLog,
                   jobVars, dmVars>>

\* ---------------------------------------------------------------- main_loop
Ev(kind, n) == [kind |-> kind, n |-> n]

\* a sender that posts the message again when the post raised
send_telegram_message_Retries(log, ev, delivered) ==
    IF delivered THEN Append(log, ev) ELSE log \o <<ev, ev>>

\* lines 92-97: the message is posted once; when requests.post raises
\* (delivered = FALSE) the handler prints and the function returns as it does
\* after a post that worked. log: the messages posted so far
send_telegram_message(log, ev, delivered) == Append(log, ev)

\* lines 243-246: the cursor the startup poll's result gives
StartupCursor(result) ==
    IF result # <<>> THEN result[Len(result)].update_id ELSE NoneId

\* lines 240-252: the startup poll (or its failure), the "Bot is active"
\* message and the empty queue
Startup ==
    /\ pc = "startup"
    /\ \E polled \in BOOLEAN :
          last_update_id' = IF polled THEN StartupCursor(Result) ELSE NoneId
    /\ historical' = Len(feed)
    /\ \E delivered \in BOOLEAN :
          /\ bootLog' = send_telegram_message(bootLog, Ev("active", 0), delivered)
          /\ send_failed' = ~delivered
    /\ queue' = <<>>
    /\ pc' = "poll"
    /\ UNCHANGED <<feed, BOT_TOKEN, CHAT_ID, exit_status, saved, iter_dequeued,
                   poll_failed, updates, enqueued, dequeued, finished,
                   queuedNotes, jobLog, attemptsLog, jobVars, dmVars>>

\* line 257: get_updates() returns the server's answer
GetUpdates ==
    /\ pc = "poll"
    /\ updates' = Result
    /\ pc' = "handle"
    /\ send_failed' = FALSE
    /\ UNCHANGED <<frame, poll_failed, last_update_id, queue, historical, enqueued,
                   dequeued, finished, queuedNotes, jobLog, attemptsLog, jobVars,
                   dmVars>>

\* a loop whose queue step stands inside the try block of the poll
GetUpdatesFails_SkipsQueue ==
    /\ pc = "poll"
    /\ pc' = "sleep"
    /\ poll_failed' = TRUE
    /\ send_failed' = FALSE
    /\ UNCHANGED <<frame, loopVars, jobLog, attemptsLog, jobVars, dmVars>>

\* lines 257, 269-270: get_updates() raises, the handler prints and goes on
GetUpdatesFails ==
    /\ pc = "poll"
    /\ pc' = "process"
    /\ poll_failed' = TRUE
    /\ send_failed' = FALSE
    /\ UNCHANGED <<frame, loopVars, jobLog, attemptsLog, jobVars, dmVars>>

\* a cursor test that lets the update at the cursor through again
IsNewUpdate_AtCursor(last, update_id) == last = NoneId \/ update_id >= last

\* line 260
IsNewUpdate(last, update_id) == last = NoneId \/ update_id > last

\* a queue that takes new jobs at its head
Enqueue_AtHead(q, job) == <<job>> \o q

\* line 266
Enqueue(q, job) == Append(q, job)

\* a position read before the append
Position_BeforeAppend(q) == Len(q) - 1

\* line 267: pos = len(queue), q being the queue the job was appended to
Position(q) == Len(q)

\* line 268: the len(queue) of the message
TotalPending(q) == Len(q)

\* lines 259-268: one turn of the for loop, on the loop's state
\* st = [last, queue, notes, enq, lost]; delivered: the post of the turn's
\* "queued" message (if it sends one) does not raise
HandleUpdate(st, msg, delivered) ==
    IF ~IsNewUpdate(st.last, msg.update_id) THEN st
    ELSE LET job == IF msg.has_text THEN parse_message_text(msg.text)
                    ELSE <<None, None>>
         IN  IF msg.has_text /\ Truthy(job[1])
             THEN LET q == Enqueue(st.queue, job)
                  IN  [last  |-> msg.update_id,
                       queue |-> q,
                       notes |-> send_telegram_message(
                                    st.notes,
                                    [uid |-> msg.update_id, pos |-> Position(q),
                                     total |-> TotalPending(q)],
                                    delivered),
                       enq   |-> Append(st.enq, [uid |-> msg.update_id, job |-> job]),
                       lost  |-> st.lost \/ ~delivered]
             ELSE [st EXCEPT !.last = msg.update_id]

RECURSIVE HandleAll(_, _, _)
HandleAll(st, batch, outcomes) ==
    IF batch = <<>> THEN st
    ELSE HandleAll(HandleUpdate(st, Head(batch), Head(outcomes)),
                   Tail(batch), Tail(outcomes))

\* lines 258-268: the for loop over the polled batch
HandleUpdates ==
    /\ pc = "handle"
    /\ \E outcomes \in [DOMAIN updates -> BOOLEAN] :
         LET st == HandleAll([last |-> last_update_id, queue |-> queue,
                              notes |-> queuedNotes, enq |-> enqueued,
                              lost |-> FALSE], updates, outcomes)
         IN  /\ last_update_id' = st.last
             /\ queue' = st.queue
             /\ queuedNotes' = st.notes
             /\ enqueued' = st.enq
             /\ send_failed' = st.lost
    /\ updates' = <<>>
    /\ pc' = "process"
    /\ UNCHANGED <<frame, poll_failed, historical, dequeued, finished, jobLog,
                   attemptsLog, jobVars, dmVars>>

\* line 274: queue.pop(0), the job it returns and the list it leaves
Front(q) == Head(q)

\* a pop that empties the list
PopFront_Clear(q) == <<>>

\* a pop that takes the job behind the head along
PopFront_Two(q) == IF Len(q) > 1 THEN Tail(Tail(q)) ELSE Tail(q)

PopFront(q) == Tail(q)

\* line 278: datetime.now() at a dequeue. Line 300 sleeps five seconds
\* between two dequeues, so the readings of different jobs differ: the k-th
\* dequeue reads k
Timestamp == Len(dequeued) + 1

DefaultName(stamp) == <<"v", "i", "d", "e", "o", "_", ToString(stamp)>> \o DOT_MP4

\* a test that leaves a single queued job waiting
HasWork_Several(q) == Len(q) > 1

\* line 273: if queue
HasWork(q) == q # <<>>

\* lines 273-281: a job leaves the queue
Dequeue ==
    /\ pc = "process"
    /\ HasWork(queue)
    /\ LET job == Front(queue)
       IN  /\ m3u8_url' = job[1]
           /\ filename' = IF Truthy(job[2]) THEN job[2] ELSE DefaultName(Timestamp)
           /\ dequeued' = Append(dequeued, job)
    /\ queue' = PopFront(queue)
    /\ \E delivered \in BOOLEAN :
          /\ jobLog' = send_telegram_message(<<>>, Ev("start", Len(queue')), delivered)
          /\ send_failed' = ~delivered
    /\ attempt' = 1
    /\ success' = FALSE
    /\ attemptsLog' = <<>>
    /\ pc' = "attempt"
    /\ poll_failed' = FALSE
    /\ UNCHANGED <<frame, updates, last_update_id, historical, enqueued, finished,
                   queuedNotes, dmVars>>

\* line 273: nothing is queued
QueueEmpty ==
    /\ pc = "process"
    /\ ~HasWork(queue)
    /\ pc' = "sleep"
    /\ poll_failed' = FALSE
    /\ send_failed' = FALSE
    /\ UNCHANGED <<frame, loopVars, jobLog, attemptsLog, jobVars, dmVars>>

\* lines 286-287: the attempt's message and the call of download_and_merge
Attempt ==
    /\ pc = "attempt"
    /\ \E delivered \in BOOLEAN :
          /\ jobLog' = Append(send_telegram_message(jobLog, Ev("attempt", attempt),
                                                    delivered),
                              Ev("download", attempt))
          /\ send_failed' = ~delivered
    /\ m3u8_content' = None
    /\ chunk_urls' = <<>>
    /\ tools' = {}
    /\ pc' = "dm_fetch"
    /\ UNCHANGED <<frame, poll_failed, loopVars, attemptsLog, jobVars, fs, chunks,
                   temp_ts, drive, ok>>

\* a range that holds one attempt more
HasNextAttempt_OneMore(n) == n <= MAX_RETRIES

\* line 285: range(1, MAX_RETRIES + 1) holds an attempt after this one
HasNextAttempt(n) == n < MAX_RETRIES

\* lines 288-292
AttemptSucceeded ==
    /\ pc = "result"
    /\ ok
    /\ \E delivered \in BOOLEAN :
          /\ jobLog' = send_telegram_message(jobLog, Ev("success", Len(queue)),
                                             delivered)
          /\ send_failed' = ~delivered
    /\ success' = TRUE
    /\ saved' = Append(saved, [name |-> filename, job |-> Len(dequeued)])
    /\ tools' = {}
    /\ pc' = "after"
    /\ UNCHANGED <<feed, BOT_TOKEN, CHAT_ID, exit_status, bootLog, iter_dequeued,
                   poll_failed, loopVars, attemptsLog, m3u8_url, filename, attempt,
                   m3u8_content, chunk_urls, fs, chunks, temp_ts, drive, ok>>

\* a retry loop that puts the job back at the tail when its last attempt failed
AttemptFailed_Requeues ==
    /\ pc = "result"
    /\ ~ok
    /\ \E delivered \in BOOLEAN :
          /\ jobLog' = Append(send_telegram_message(jobLog, Ev("failed", attempt),
                                                    delivered),
                              Ev("sleep", RETRY_DELAY))
          /\ send_failed' = ~delivered
    /\ IF HasNextAttempt(attempt)
       THEN attempt' = attempt + 1 /\ pc' = "attempt" /\ queue' = queue
       ELSE /\ attempt' = attempt
            /\ pc' = "after"
            /\ queue' = Append(queue, dequeued[Len(dequeued)])
    /\ tools' = {}
    /\ UNCHANGED <<frame, poll_failed, updates, last_update_id, historical,
                   enqueued, dequeued, finished, queuedNotes, attemptsLog, m3u8_url,
                   filename, success, m3u8_content, chunk_urls, fs, chunks, temp_ts,
                   drive, ok>>

\* lines 293-295, and the for loop's next turn or its end
AttemptFailed ==
    /\ pc = "result"
    /\ ~ok
    /\ \E delivered \in BOOLEAN :
          /\ jobLog' = Append(send_telegram_message(jobLog, Ev("failed", attempt),
                                                    delivered),
                              Ev("sleep", RETRY_DELAY))
          /\ send_failed' = ~delivered
    /\ IF HasNextAttempt(attempt)
       THEN attempt' = attempt + 1 /\ pc' = "attempt"
       ELSE attempt' = attempt /\ pc' = "after"
    /\ tools' = {}
    /\ UNCHANGED <<frame, poll_failed, loopVars, attemptsLog, m3u8_url, filename,
                   success, m3u8_content, chunk_urls, fs, chunks, temp_ts, drive,
                   ok>>

\* a test that forgets the success flag
GivesUp_Always(succeeded) == TRUE

\* line 297
GivesUp(succeeded) == ~succeeded

\* a queue step that goes on to the next queued job: while queue
AfterAttempts_Drains ==
    /\ pc = "after"
    /\ IF GivesUp(success)
       THEN \E delivered \in BOOLEAN :
               /\ jobLog' = send_telegram_message(jobLog,
                                                  Ev("allfailed", Len(queue)),
                                                  delivered)
               /\ send_failed' = ~delivered
       ELSE jobLog' = jobLog /\ send_failed' = FALSE
    /\ finished' = finished + 1
    /\ pc' = IF queue # <<>> THEN "process" ELSE "sleep"
    /\ UNCHANGED <<frame, poll_failed, updates, last_update_id, queue, historical,
                   enqueued, dequeued, queuedNotes, attemptsLog, jobVars, dmVars>>

\* lines 297-298
AfterAttempts ==
    /\ pc = "after"
    /\ IF GivesUp(success)
       THEN \E delivered \in BOOLEAN :
               /\ jobLog' = send_telegram_message(jobLog,
                                                  Ev("allfailed", Len(queue)),
                                                  delivered)
               /\ send_failed' = ~delivered
       ELSE jobLog' = jobLog /\ send_failed' = FALSE
    /\ finished' = finished + 1
    /\ pc' = "sleep"
    /\ UNCHANGED <<frame, poll_failed, updates, last_update_id, queue, historical,
                   enqueued, dequeued, queuedNotes, attemptsLog, jobVars, dmVars>>

\* line 300. The locals of the finished job are dead (each is assigned before
\* it is read again), and the job's history ends with the job
Sleep ==
    /\ pc = "sleep"
    /\ m3u8_url' = None
    /\ filename' = None
    /\ attempt' = 0
    /\ success' = FALSE
    /\ ok' = FALSE
    /\ m3u8_content' = None
    /\ chunk_urls' = <<>>
    /\ tools' = {}
    /\ jobLog' = <<>>
    /\ attemptsLog' = <<>>
    /\ iter_dequeued' = Len(dequeued)
    /\ send_failed' = FALSE
    /\ pc' = "poll"
    /\ UNCHANGED <<feed, BOT_TOKEN, CHAT_ID, exit_status, bootLog, saved,
                   poll_failed, loopVars, fs, chunks, temp_ts, drive>>

\* ------------------------------------------------------- download_and_merge
\* what download_and_merge leaves alone (it sends no message)
dmFrame == <<frame, loopVars, jobLog, attemptsLog, jobVars, poll_failed>>

\* lines 175-176: the manifest request fails (transport error, timeout, status
\* that is not 2xx), the except clause makes the result False
DmFetchFails ==
    /\ pc = "dm_fetch"
    /\ ok' = FALSE
    /\ pc' = "dm_finally"
    /\ send_failed' = FALSE
    /\ UNCHANGED <<dmFrame, m3u8_content, chunk_urls, fs, chunks, temp_ts, drive,
                   tools>>

\* lines 175-201: the manifest is fetched and written, its segment URLs are
\* collected; with none, line 194 raises, else chunks.txt is written
DmFetch ==
    /\ pc = "dm_fetch"
    /\ \E content \in Manifests :
         /\ m3u8_content' = content
         /\ chunk_urls' = ChunkUrls(content, m3u8_url)
    /\ IF chunk_urls' = <<>>
       THEN /\ fs' = fs \cup {"playlist.m3u8"}
            /\ ok' = FALSE
            /\ pc' = "dm_finally"
       ELSE /\ fs' = fs \cup {"playlist.m3u8", "chunks.txt"}
            /\ ok' = ok
            /\ pc' = "dm_aria"
    /\ send_failed' = FALSE
    /\ UNCHANGED <<dmFrame, chunks, temp_ts, drive, tools>>

\* the files the URLs of chunks.txt are saved to
SegmentFiles(urls) == {Basename(urls[i]) : i \in DOMAIN urls}

\* lines 204-205: aria2c runs and downloads into chunks/ (beside what the
\* directory holds already); it exits 0 with every segment saved, or it fails
\* with some of the segments missing
DmAria ==
    /\ pc = "dm_aria"
    /\ tools' = tools \cup {"aria2c"}
    /\ fs' = fs \cup {"chunks"}
    /\ \E fetched \in SUBSET SegmentFiles(chunk_urls) :
         /\ chunks' = chunks \cup fetched
         /\ IF fetched = SegmentFiles(chunk_urls)
            THEN pc' = "dm_cat" /\ ok' = ok
            ELSE pc' = "dm_finally" /\ ok' = FALSE
    /\ send_failed' = FALSE
    /\ UNCHANGED <<dmFrame, m3u8_content, chunk_urls, temp_ts, drive>>

\* line 209: the shell opens temp.ts and expands the wildcard, then cat
\* writes the files in the order of the expansion (with no file matching the
\* wildcard, or on an error of reading or writing, cat fails)
DmCat ==
    /\ pc = "dm_cat"
    /\ tools' = tools \cup {"cat"}
    /\ fs' = fs \cup {"temp.ts"}
    /\ \E rc0 \in (IF GlobTs(chunks) = <<>> THEN {FALSE} ELSE BOOLEAN) :
         IF rc0 THEN /\ pc' = "dm_ffmpeg"
                     /\ ok' = ok
                     /\ temp_ts' = GlobTs(chunks)
         ELSE /\ pc' = "dm_finally"
              /\ ok' = FALSE
              /\ temp_ts' = temp_ts
    /\ send_failed' = FALSE
    /\ UNCHANGED <<dmFrame, m3u8_content, chunk_urls, chunks, drive>>

\* line 212: ffmpeg runs; it exits 0 with output.mp4 written, or it fails on
\* its input
DmFfmpeg ==
    /\ pc = "dm_ffmpeg"
    /\ tools' = tools \cup {"ffmpeg"}
    /\ \E rc0 \in BOOLEAN :
         IF rc0 THEN pc' = "dm_copy" /\ ok' = ok /\ fs' = fs \cup {"output.mp4"}
         ELSE pc' = "dm_finally" /\ ok' = FALSE /\ fs' = fs
    /\ send_failed' = FALSE
    /\ UNCHANGED <<dmFrame, m3u8_content, chunk_urls, chunks, temp_ts, drive>>

\* line 216: shutil.copy writes the file of that name, new or not
CopyTo(files, name, job) ==
    {f \in files : f.name # name} \cup {[name |-> name, job |-> job]}

\* lines 215-217: output.mp4 is copied to out_path (or makedirs or copy raise)
DmCopy ==
    /\ pc = "dm_copy"
    /\ \E copied \in BOOLEAN :
         /\ drive' = IF copied THEN CopyTo(drive, filename, Len(dequeued)) ELSE drive
         /\ ok' = copied
    /\ pc' = "dm_finally"
    /\ send_failed' = FALSE
    /\ UNCHANGED <<dmFrame, m3u8_content, chunk_urls, fs, chunks, temp_ts, tools>>

\* lines 224-231: the artifacts are removed in CleanupOrder. failAt = 0: every
\* removal works. failAt = k: removing CleanupOrder[k] raises, the handler of
\* lines 230-231 swallows it, and that artifact and the later ones stay
Cleanup(files, failAt) ==
    IF failAt = 0 THEN files \ Scratch
    ELSE files \ {CleanupOrder[i] : i \in 1..(failAt - 1)}

\* where the line of position i of a text starts
LineStart(content, i) ==
    LET breaks == {j \in 1..(i - 1) : content[j] = "\n"}
    IN  IF breaks = {} THEN 1
        ELSE 1 + CHOOSE j \in breaks : \A k \in breaks : k <= j

\* every line of the manifest is blank or starts with "#": a character that is
\* not white space stands in a line whose first character is "#"
OnlyBlankOrComment(content) ==
    \A i \in DOMAIN content :
       content[i] \in Whitespace \/ content[LineStart(content, i)] = "#"

\* the manifests of blank and "#" lines only
BlankManifests == {m \in Manifests : OnlyBlankOrComment(m)}

\* lines 222-231, and the return of lines 217 or 221 (the locals of the call
\* end with it, and what temp.ts held is not read again: line 209 truncates it)
DmFinally ==
    /\ pc = "dm_finally"
    /\ \E failAt \in 0..Len(CleanupOrder) :
         /\ failAt # 0 => CleanupOrder[failAt] \in fs
         /\ fs' = Cleanup(fs, failAt)
    /\ chunks' = IF "chunks" \in fs' THEN chunks ELSE {}
    /\ temp_ts' = <<>>
    /\ attemptsLog' = Append(attemptsLog,
                             [blank |-> m3u8_content \in BlankManifests,
                              ok    |-> ok])
    /\ m3u8_content' = None
    /\ chunk_urls' = <<>>
    /\ pc' = "result"
    /\ send_failed' = FALSE
    /\ UNCHANGED <<frame, poll_failed, loopVars, jobLog, jobVars, drive, tools, ok>>

\* --------------------------------------------------------------------- spec
BotNext ==
    \/ CheckCredentials
    \/ Startup
    \/ GetUpdates
    \/ GetUpdatesFails
    \/ HandleUpdates
    \/ Dequeue
    \/ QueueEmpty
    \/ Attempt
    \/ DmFetchFails
    \/ DmFetch
    \/ DmAria
    \/ DmCat
    \/ DmFfmpeg
    \/ DmCopy
    \/ DmFinally
    \/ AttemptSucceeded
    \/ AttemptFailed
    \/ AfterAttempts
    \/ Sleep

Next == NewMessage \/ BotNext

Spec == Init /\ [][Next]_vars

\* the loop runs on: the process is not shut down and every call returns
FairSpec == Spec /\ WF_vars(BotNext)

\* --------------------------------------------------------------- properties
JobsOf(entries) == [i \in DOMAIN entries |-> entries[i].job]

UidsOf(entries) == {entries[i].uid : i \in DOMAIN entries}

MaxOf(S) == CHOOSE m \in S : \A x \in S : x <= m

\* the identifiers of the batch being handled
BatchIds == {updates[i].update_id : i \in DOMAIN updates}

\* the jobs a step appends to the history of enqueued jobs
NewlyEnqueued == SubSeq(enqueued', Len(enqueued) + 1, Len(enqueued'))

\* a step of the main loop that handles a polled batch
HandlesBatch == pc = "handle" /\ pc' = "process"

\* the text of update uid is an accepted link (with or without a label)
HoldsLink(uid) ==
    /\ uid \in DOMAIN feed
    /\ feed[uid].has_text
    /\ feed[uid].text \in {TXT_PLAIN, TXT_LABELLED}

\* C1: when the main loop handles a polled batch, the cursor afterwards is the
\* largest of the identifiers in the batch and the cursor before it, and every
\* job the batch produces comes from an identifier of the batch above the
\* cursor held before the batch
C1_CursorAfterBatch ==
    [][HandlesBatch =>
         LET seen == BatchIds \cup (IF last_update_id = NoneId THEN {}
                                    ELSE {last_update_id})
         IN  /\ last_update_id' = IF seen = {} THEN NoneId ELSE MaxOf(seen)
             /\ Len(queue') = Len(queue) + Len(NewlyEnqueued)
             /\ \A i \in DOMAIN NewlyEnqueued :
                  /\ NewlyEnqueued[i].uid \in BatchIds
                  /\ last_update_id # NoneId => NewlyEnqueued[i].uid > last_update_id
    ]_vars

\* C1 witness: a batch held an accepted link at or below the cursor together
\* with a newer accepted link; only the newer one became a job
C1_Witness ==
    /\ pc = "process"
    /\ \E old \in DOMAIN feed, new \in DOMAIN feed :
         /\ old < new
         /\ HoldsLink(old) /\ HoldsLink(new)
         /\ old <= historical
         /\ old \notin UidsOf(enqueued)
         /\ new \in UidsOf(enqueued)
         /\ last_update_id = new

\* C2: no update that the feed held when the bot started ever becomes a job
C2_HistoricalNeverQueued ==
    \A k \in DOMAIN enqueued : enqueued[k].uid > historical

\* C3: the jobs popped so far, followed by the jobs still queued, are the jobs
\* appended so far, in the order of their appending
C3_Fifo == dequeued \o queue = JobsOf(enqueued)

\* C3 witness: two different jobs stood in the queue together and both have
\* been popped
C3_Witness ==
    /\ Len(dequeued) = 2
    /\ dequeued[1] # dequeued[2]
    /\ \E k \in DOMAIN queuedNotes : queuedNotes[k].pos = 2

\* how many events of a kind the current job's history holds
Count(kind) == Len(SelectSeq(jobLog, LAMBDA e : e.kind = kind))

\* a job has been processed to its end in this iteration
JobOver == pc = "sleep" /\ m3u8_url # None

\* C4: a job whose download fails on attempts 1 and 2 and succeeds on attempt 3
\* ends with exactly 3 "Attempt k/3" notifications (line 286), 3 download
\* calls, one success notification and no "All attempts failed" notification
C4_RetryThenSuccess ==
    (/\ JobOver
     /\ Len(attemptsLog) >= 3
     /\ ~attemptsLog[1].ok /\ ~attemptsLog[2].ok /\ attemptsLog[3].ok)
    => /\ Count("attempt") = 3
       /\ Count("download") = 3
       /\ Len(attemptsLog) = 3
       /\ Count("success") = 1
       /\ Count("allfailed") = 0

\* C4 witness: a job is over whose attempts failed, failed and succeeded
C4_Witness ==
    /\ JobOver
    /\ Len(attemptsLog) = 3
    /\ ~attemptsLog[1].ok /\ ~attemptsLog[2].ok /\ attemptsLog[3].ok
    /\ Count("success") = 1

\* C5: a dequeued job gets between 1 and MAX_RETRIES download calls, none
\* after a call that succeeded, and ends with exactly one terminal
\* notification, sent last: the success one if a call succeeded, the "all
\* attempts failed" one iff MAX_RETRIES calls failed; the queue is as the
\* dequeue left it (the job is not put back)
C5_AttemptsAndTerminal ==
    /\ Count("download") <= MAX_RETRIES
    /\ \A i \in DOMAIN attemptsLog : attemptsLog[i].ok => i = Len(attemptsLog)
    /\ Count("success") + Count("allfailed") <= 1
    /\ JobOver =>
         /\ Count("download") \in 1..MAX_RETRIES
         /\ Len(attemptsLog) = Count("download")
         /\ Count("success") + Count("allfailed") = 1
         /\ jobLog[Len(jobLog)].kind \in {"success", "allfailed"}
         /\ Count("success") = 1 <=> \E i \in DOMAIN attemptsLog : attemptsLog[i].ok
         /\ Count("allfailed") = 1 <=>
              /\ Len(attemptsLog) = MAX_RETRIES
              /\ \A i \in DOMAIN attemptsLog : ~attemptsLog[i].ok
         /\ jobLog[1].kind = "start" /\ Len(queue) = jobLog[1].n

\* C5 witness: a job is over after MAX_RETRIES failed calls, with another job
\* waiting in the queue
C5_Witness ==
    /\ JobOver
    /\ Count("allfailed") = 1
    /\ Count("download") = MAX_RETRIES
    /\ queue # <<>>

\* C6: when download_and_merge has returned, no scratch artifact exists
C6_ScratchRemoved == pc = "result" => fs \cap Scratch = {}

\* a job has left the queue and has not reached the end of its processing
InProcessing ==
    pc \notin {"boot", "exit", "startup", "poll", "handle", "process", "sleep"}

\* C7: at most one popped job is unfinished; the queue changes only by an
\* append at its tail while a batch is handled or by the pop of its head when
\* processing starts; every appended job is queued or popped, never both, and
\* no update is appended twice
C7_QueueDiscipline ==
    /\ [](/\ Len(dequeued) - finished \in {0, 1}
          /\ Len(dequeued) - finished = 1 <=> InProcessing
          /\ Len(queue) + Len(dequeued) = Len(enqueued)
          /\ Cardinality(UidsOf(enqueued)) = Len(enqueued))
    /\ [][\/ queue' = queue
          \/ /\ pc = "handle"
             /\ Len(queue') > Len(queue)
             /\ SubSeq(queue', 1, Len(queue)) = queue
          \/ /\ pc = "process"
             /\ queue # <<>>
             /\ queue' = Tail(queue)
             /\ dequeued' = Append(dequeued, Head(queue))
             /\ enqueued' = enqueued]_vars

\* C7 witness: a job has failed all its attempts while another job waited, and
\* the waiting job is still the only one queued
C7_Witness ==
    /\ pc = "sleep"
    /\ Count("allfailed") = 1
    /\ Len(dequeued) = 1
    /\ Len(queue) = 1
    /\ Len(enqueued) = 2

\* C8: under FairSpec (the process runs on and every call returns) the k-th
\* appended job is eventually popped and processed to its end, for every k;
\* and at any time the appended jobs are exactly the popped ones, each popped
\* once and in turn, followed by the queued ones
C8_EveryJobProcessed ==
    /\ [](/\ finished <= Len(dequeued)
          /\ Len(dequeued) <= Len(enqueued)
          /\ dequeued = SubSeq(JobsOf(enqueued), 1, Len(dequeued))
          /\ queue = SubSeq(JobsOf(enqueued), Len(dequeued) + 1, Len(enqueued)))
    /\ \A k \in 1..MaxMsgs :
          (Len(enqueued) >= k) ~> (Len(dequeued) >= k /\ finished >= k)

\* C8 witness: every update of a full feed became a job and every job has been
\* processed to its end
C8_Witness ==
    /\ Len(enqueued) = MaxMsgs
    /\ finished = MaxMsgs

\* C9: an attempt that fetched a manifest of blank and "#" lines only never
\* reaches the aria2c, cat, ffmpeg or copy step, returns False with no tool
\* invoked, and a job all of whose attempts fetched such manifests fails
\* MAX_RETRIES times and ends with the "all attempts failed" notification
C9_BlankManifestFails ==
    /\ pc \in {"dm_aria", "dm_cat", "dm_ffmpeg", "dm_copy"}
         => m3u8_content \notin BlankManifests
    /\ (pc = "result" /\ attemptsLog[Len(attemptsLog)].blank) => ~ok /\ tools = {}
    /\ \A i \in DOMAIN attemptsLog : attemptsLog[i].blank => ~attemptsLog[i].ok
    /\ (JobOver /\ \A i \in DOMAIN attemptsLog : attemptsLog[i].blank)
         => /\ Len(attemptsLog) = MAX_RETRIES
            /\ Count("allfailed") = 1
            /\ Count("success") = 0

\* C9 witness: a job is over all of whose attempts fetched a manifest of blank
\* and "#" lines only
C9_Witness ==
    /\ JobOver
    /\ Len(attemptsLog) = MAX_RETRIES
    /\ \A i \in DOMAIN attemptsLog : attemptsLog[i].blank

\* the candidate link of a text: the trimmed text, or with a "|" the trimmed
\* part behind the first "|"
Candidate(text) ==
    IF \E i \in DOMAIN text : text[i] = "|"
    THEN LET bar == CHOOSE i \in DOMAIN text :
                       text[i] = "|" /\ \A j \in 1..(i - 1) : text[j] # "|"
         IN  strip(SubSeq(text, bar + 1, Len(text)))
    ELSE strip(text)

\* the candidate link starts with "http" and ends with ".m3u8"
CandidateOk(text) ==
    LET c == Candidate(text)
        n == Len(c)
    IN  /\ n >= 5
        /\ c[1] = "h" /\ c[2] = "t" /\ c[3] = "t" /\ c[4] = "p"
        /\ c[n - 4] = "." /\ c[n - 3] = "m" /\ c[n - 2] = "3"
        /\ c[n - 1] = "u" /\ c[n] = "8"

\* texts parse_message_text is tried on, beside those the messages carry
ParseTexts ==
    MsgTexts \cup
    { <<>>, <<"|">>, <<" ">>, HTTP, DOT_M3U8, HTTP \o DOT_M3U8,
      <<"H", "T", "T", "P">> \o DOT_M3U8,
      HTTP \o <<".", "M", "3", "U", "8">>,
      HTTP \o <<".", "m", "3", "u">>,
      <<"x">> \o LINK_A,
      LINK_A \o <<"x">>,
      LINK_A \o <<"|">>,
      LINK_A \o <<"|", " ">> \o HTTP,
      <<"|">> \o LINK_A,
      <<"L", "|">> \o LINK_A \o <<"|", "y">>,
      <<"L", "|">> \o LINK_A \o <<" ", "|">> \o LINK_B,
      <<"L", "|", "\t">> \o LINK_A \o <<"\n">>,
      LINK_A \o <<" ">> \o LINK_B,
      LINK_A \o <<"\n", "x">> }

\* the updates of the batch that the loop does not skip
FreshUpdates ==
    {i \in DOMAIN updates : last_update_id = NoneId
                            \/ updates[i].update_id > last_update_id}

\* C10: parse_message_text yields no job for a text whose candidate link does
\* not both start with "http" and end with ".m3u8"; every job and every
\* "queued" notification a handled batch produces comes from a text whose
\* candidate link passes, and a batch none of whose fresh updates passes
\* leaves the queue and the notifications as they were
C10_SilentReject ==
    /\ \A t \in ParseTexts :
          ~CandidateOk(t) => parse_message_text(t) = <<None, None>>
    /\ [][HandlesBatch =>
            LET newNotes == SubSeq(queuedNotes', Len(queuedNotes) + 1,
                                   Len(queuedNotes'))
            IN  /\ \A i \in DOMAIN NewlyEnqueued :
                     /\ feed[NewlyEnqueued[i].uid].has_text
                     /\ CandidateOk(feed[NewlyEnqueued[i].uid].text)
                /\ \A i \in DOMAIN newNotes :
                     /\ feed[newNotes[i].uid].has_text
                     /\ CandidateOk(feed[newNotes[i].uid].text)
                /\ (\A i \in FreshUpdates :
                       ~(updates[i].has_text /\ CandidateOk(updates[i].text)))
                   => /\ queue' = queue
                      /\ queuedNotes' = queuedNotes
                      /\ enqueued' = enqueued
         ]_vars

\* C10 witness: a batch of two fresh updates, a label with a link that does not
\* end in ".m3u8" and a text that is no link, has been handled: nothing was
\* queued and nothing was notified
C10_Witness ==
    /\ pc = "process"
    /\ historical = 0
    /\ Len(feed) = 2
    /\ feed[1].has_text /\ feed[1].text = TXT_BAD_LABEL
    /\ feed[2].has_text /\ feed[2].text = TXT_NOT_LINK
    /\ last_update_id = 2
    /\ queue = <<>>
    /\ queuedNotes = <<>>
    /\ enqueued = <<>>

\* the text before the first "|" of a text that holds one
RawLabel(text) ==
    LET bar == CHOOSE i \in DOMAIN text :
                  text[i] = "|" /\ \A j \in 1..(i - 1) : text[j] # "|"
    IN  SubSeq(text, 1, bar - 1)

\* the characters an output name must not hold
Forbidden == {"\\", "/", "*", "?", ":", "\"", "<", ">", "|"}

\* s without the characters of a set, in the order s has them
RECURSIVE Without(_, _)
Without(s, chars) ==
    IF s = <<>> THEN <<>>
    ELSE IF Head(s) \in chars THEN Without(Tail(s), chars)
    ELSE <<Head(s)>> \o Without(Tail(s), chars)

\* s from its first to its last character that is not white space
Trimmed(s) ==
    LET solid == {i \in DOMAIN s : s[i] \notin {" ", "\n", "\t"}}
    IN  IF solid = {} THEN <<>>
        ELSE SubSeq(s, CHOOSE i \in solid : \A j \in solid : i <= j,
                       CHOOSE i \in solid : \A j \in solid : j <= i)

\* texts with labels that hold forbidden characters, beside ParseTexts
LabelTexts ==
    ParseTexts \cup
    { <<"\\", "/", "*", "?", ":", "\"", "<", ">", "|">> \o LINK_A,
      <<" ", "a", "/", " ", "b", "?", "\t", "|">> \o LINK_A,
      <<":", " ", "x", " ", "*", "|", " ">> \o LINK_B \o <<"|", "<">>,
      <<"a", ".", "m", "p", "4", "|">> \o LINK_A }

\* what C11 asks of the pair parse_message_text returns for a text it accepts
NamedAsLabelled(text, job) ==
    IF \E i \in DOMAIN text : text[i] = "|"
    THEN LET n     == Len(job[2])
             label == SubSeq(job[2], 1, n - 4)
         IN  /\ n >= 4
             /\ SubSeq(job[2], n - 3, n) = <<".", "m", "p", "4">>
             /\ \A i \in DOMAIN label : label[i] \notin Forbidden
             /\ label = Trimmed(Without(RawLabel(text), Forbidden))
    ELSE /\ job[2] = None
         /\ job[1] = Trimmed(text)

\* parse_message_text names its result as C11 asks, on every tried text
ParseNamesOk ==
    \A t \in LabelTexts :
       parse_message_text(t)[1] # None => NamedAsLabelled(t, parse_message_text(t))

\* C11: for every accepted text with a "|" the output name is the sanitized
\* label followed by ".mp4", and the sanitized label holds none of the
\* characters \ / * ? : " < > | ; for every accepted text without a "|" the
\* output name is unset and the link is the whole trimmed text. This holds of
\* parse_message_text on every tried text, of every job the loop appends, and
\* the name a labelled job is saved under is the name it was queued with
C11_OutputName ==
    /\ ParseNamesOk
    /\ \A k \in DOMAIN enqueued :
          NamedAsLabelled(feed[enqueued[k].uid].text, enqueued[k].job)
    /\ (InProcessing /\ dequeued[Len(dequeued)][2] # None)
          => filename = dequeued[Len(dequeued)][2]

\* C11 witness: a job whose label held a ":" and blanks is being downloaded
\* under the name "L.mp4", and a job queued without a label has no name
C11_Witness ==
    /\ InProcessing
    /\ filename = <<"L", ".", "m", "p", "4">>
    /\ \E k \in DOMAIN enqueued :
          /\ feed[enqueued[k].uid].text = TXT_LABELLED
          /\ enqueued[k].job = dequeued[Len(dequeued)]
    /\ \E k \in DOMAIN enqueued :
          /\ feed[enqueued[k].uid].text = TXT_PLAIN
          /\ enqueued[k].job = <<LINK_A, None>>

\* the places of the while loop of lines 254-300 (download_and_merge included)
InMainLoop ==
    pc \in {"poll", "handle", "process", "attempt", "dm_fetch", "dm_aria", "dm_cat",
            "dm_ffmpeg", "dm_copy", "dm_finally", "result", "after", "sleep"}

\* C12: a poll that raises is swallowed: the step leaves the cursor, the queue
\* and the job histories as they were and goes on to the queue step of the
\* same iteration, which pops the head of a queue that holds jobs; the loop is
\* never left; and under FairSpec the iteration comes to its end and the loop
\* to the next poll
C12_PollFailureNotFatal ==
    /\ [][(pc = "poll" /\ poll_failed')
            => /\ pc' = "process"
               /\ UNCHANGED <<last_update_id, queue, enqueued, dequeued,
                              finished, queuedNotes, fs, drive>>]_vars
    /\ [][(pc = "process" /\ poll_failed)
            => IF queue # <<>>
               THEN /\ pc' = "attempt"
                    /\ dequeued' = Append(dequeued, Head(queue))
                    /\ queue' = Tail(queue)
               ELSE pc' = "sleep" /\ queue' = queue]_vars
    /\ [][InMainLoop => InMainLoop']_vars
    /\ poll_failed ~> (pc = "poll")

\* C12 witness: the poll of an iteration has raised while a job waits in the
\* queue, after an earlier iteration processed another job
C12_Witness ==
    /\ poll_failed
    /\ pc = "process"
    /\ queue # <<>>
    /\ finished = 1

\* the segment files of the attempt, in the order the manifest lists them
ManifestOrder == [i \in DOMAIN chunk_urls |-> Basename(chunk_urls[i])]

\* C13: when the concatenation of an attempt has been made, temp.ts is made of
\* the attempt's segment files in the order the manifest lists their URLs
C13_ConcatInManifestOrder == pc = "dm_ffmpeg" => temp_ts = ManifestOrder

\* C14: in the history of a job a delay stands only behind the failure of an
\* attempt that is not the last one, every attempt after the first is preceded
\* by the delay of RETRY_DELAY, and the "all attempts failed" notification is
\* not preceded by a delay
C14_DelayOnlyBetweenAttempts ==
    \A i \in DOMAIN jobLog :
       /\ jobLog[i].kind = "sleep"
            => /\ i > 1
               /\ jobLog[i - 1].kind = "failed"
               /\ jobLog[i - 1].n < MAX_RETRIES
       /\ (jobLog[i].kind = "attempt" /\ jobLog[i].n > 1)
            => jobLog[i - 1] = Ev("sleep", RETRY_DELAY)
       /\ jobLog[i].kind = "allfailed" => jobLog[i - 1].kind # "sleep"

\* C15: jobs are appended only by the step that handles the polled batch,
\* while no job is in processing and with no pop in that step; a job is popped
\* only by the queue step that follows it, one job at a step, and the queue
\* step pops exactly when the queue holds jobs; an iteration pops at most one
\* job, has processed it to its terminal notification when it ends, and ends
\* without a pop only if the queue was empty
C15_OneJobPerIteration ==
    /\ [](/\ Len(dequeued) - iter_dequeued \in {0, 1}
          /\ pc \in {"poll", "handle", "process"}
               => Len(dequeued) = iter_dequeued /\ finished = Len(dequeued)
          /\ pc = "sleep"
               => /\ finished = Len(dequeued)
                  /\ Len(dequeued) = iter_dequeued => queue = <<>>
                  /\ Len(dequeued) = iter_dequeued + 1
                       => Count("success") + Count("allfailed") = 1)
    /\ [][enqueued' # enqueued
            => pc = "handle" /\ pc' = "process" /\ dequeued' = dequeued]_vars
    /\ [][dequeued' # dequeued
            => /\ pc = "process" /\ updates = <<>>
               /\ dequeued' = Append(dequeued, Head(queue))
               /\ enqueued' = enqueued]_vars
    /\ [][pc = "process"
            => (queue # <<>> <=> Len(dequeued') = Len(dequeued) + 1)]_vars

\* C15 witness: a batch of two links was queued in one iteration, which
\* processed the first to its end and left the second
C15_Witness ==
    /\ pc = "sleep"
    /\ Len(enqueued) = 2
    /\ iter_dequeued = 0
    /\ Len(dequeued) = 1
    /\ finished = 1
    /\ Len(queue) = 1

\* the kinds of the notifications in the history of a job
NotificationKinds == {"start", "attempt", "failed", "success", "allfailed"}

\* no notification stands twice in the histories
SentOnce ==
    /\ Len(bootLog) <= 1
    /\ \A i, j \in DOMAIN queuedNotes :
          queuedNotes[i].uid = queuedNotes[j].uid => i = j
    /\ \A i, j \in DOMAIN jobLog :
          (jobLog[i].kind \in NotificationKinds /\ jobLog[i] = jobLog[j]) => i = j

\* the step is one of the process (the feed stays as it is), it sends a
\* notification and the post raises
SendFails == send_failed' /\ feed' = feed

\* C16: no notification is sent twice; and a step in which the post of a
\* notification raises leaves the process running in the loop and has, on the
\* queue, the cursor, the attempt counter, the success flag and the place the
\* process goes to, the effect the code gives the step whatever the post does:
\* the startup step empties the queue, the batch step appends one job per
\* "queued" notification, the queue step pops the head and starts attempt 1,
\* an attempt's step starts the download, the step behind a download counts
\* the attempt (or ends the loop) by the download's result alone, and the
\* last step ends the job
C16_SendFailureSwallowed ==
    /\ []SentOnce
    /\ [][SendFails =>
            /\ InMainLoop' /\ exit_status' = NoneId
            /\ CASE pc = "startup" ->
                      pc' = "poll" /\ queue' = <<>> /\ Len(bootLog') = 1
                 [] pc = "handle" ->
                      /\ pc' = "process"
                      /\ Len(queue') - Len(queue) = Len(queuedNotes') - Len(queuedNotes)
                      /\ Len(queue') - Len(queue) = Len(NewlyEnqueued)
                      /\ last_update_id' = MaxOf(BatchIds \cup {last_update_id})
                 [] pc = "process" ->
                      /\ pc' = "attempt" /\ attempt' = 1 /\ ~success'
                      /\ queue' = Tail(queue)
                      /\ last_update_id' = last_update_id
                 [] pc = "attempt" ->
                      /\ pc' = "dm_fetch"
                      /\ UNCHANGED <<queue, last_update_id, attempt, success>>
                 [] pc = "result" ->
                      /\ UNCHANGED <<queue, last_update_id, finished>>
                      /\ ok => pc' = "after" /\ success' /\ attempt' = attempt
                      /\ ~ok => /\ success' = success
                                /\ IF attempt < MAX_RETRIES
                                   THEN pc' = "attempt" /\ attempt' = attempt + 1
                                   ELSE pc' = "after" /\ attempt' = attempt
                 [] pc = "after" ->
                      /\ pc' = "sleep" /\ finished' = finished + 1
                      /\ UNCHANGED <<queue, last_update_id, attempt, success>>
                 [] OTHER -> FALSE
         ]_vars

\* C16 witness: the posts of a job's last notifications raised, and the job has
\* ended all the same after MAX_RETRIES attempts, with the next job waiting
C16_Witness ==
    /\ pc = "sleep"
    /\ send_failed
    /\ Count("allfailed") = 1
    /\ Count("attempt") = MAX_RETRIES
    /\ finished = 1
    /\ Len(queue) = 1

\* C17: when no job is in processing, the output file of every job that ended
\* in success is under the destination root, under the job's name and holding
\* that job's output
C17_OneFilePerJob == ~InProcessing => \A i \in DOMAIN saved : saved[i] \in drive

\* the "queued" notifications a step adds
NewNotes == SubSeq(queuedNotes', Len(queuedNotes) + 1, Len(queuedNotes'))

\* the fresh updates of the batch whose text is accepted, in batch order
AcceptedFresh ==
    SelectSeq(updates,
              LAMBDA u : /\ last_update_id = NoneId \/ u.update_id > last_update_id
                         /\ u.has_text
                         /\ CandidateOk(u.text))

\* C18: the step that handles a batch appends the jobs of the accepted fresh
\* messages at the tail of the queue, in batch order, and sends one "queued"
\* notification for each, whose position and total are both the length the
\* queue has right after that job's append; over the whole run there is one
\* "queued" notification per appended job
C18_QueuedNotification ==
    /\ [](/\ Len(queuedNotes) = Len(enqueued)
          /\ \A k \in DOMAIN enqueued : queuedNotes[k].uid = enqueued[k].uid)
    /\ [][HandlesBatch =>
            /\ Len(NewlyEnqueued) = Len(AcceptedFresh)
            /\ Len(NewNotes) = Len(AcceptedFresh)
            /\ queue' = queue \o JobsOf(NewlyEnqueued)
            /\ \A i \in DOMAIN AcceptedFresh :
                  /\ NewlyEnqueued[i].uid = AcceptedFresh[i].update_id
                  /\ NewNotes[i].uid = AcceptedFresh[i].update_id
                  /\ NewNotes[i].pos = Len(queue) + i
                  /\ NewNotes[i].total = Len(queue) + i
         ]_vars

\* C18 witness: one batch brought two accepted messages to an empty queue; the
\* notifications report 1 and 2
C18_Witness ==
    /\ pc = "process"
    /\ dequeued = <<>>
    /\ Len(queue) = 2
    /\ Len(queuedNotes) = 2
    /\ queuedNotes[1].pos = 1 /\ queuedNotes[1].total = 1
    /\ queuedNotes[2].pos = 2 /\ queuedNotes[2].total = 2

\* an environment variable is missing: not set, or set to the empty text
Missing(v) == v = None \/ v = <<>>

\* a text that reads as an integer: around it white space, before it at most
\* one sign, and digits
IntegerText(v) ==
    LET t      == Trimmed(v)
        signed == t # <<>> /\ (t[1] = "-" \/ t[1] = "+")
        digits == IF signed THEN SubSeq(t, 2, Len(t)) ELSE t
    IN  digits # <<>> /\ Without(digits, Digits) = <<>>

\* the form of a bot token: digits, a colon, a secret
TokenForm(v) ==
    \E i \in DOMAIN v :
       /\ v[i] = ":"
       /\ 1 < i /\ i < Len(v)
       /\ \A j \in 1..(i - 1) : v[j] \in Digits

\* the process has ended in sys.exit with a status that is not zero, and has
\* polled nothing, sent nothing and queued or processed nothing
ExitedAtOnce ==
    /\ pc = "exit"
    /\ exit_status # NoneId /\ exit_status # 0
    /\ updates = <<>> /\ last_update_id = NoneId /\ historical = 0
    /\ bootLog = <<>> /\ queuedNotes = <<>> /\ jobLog = <<>>
    /\ enqueued = <<>> /\ dequeued = <<>> /\ finished = 0
    /\ drive = {} /\ fs = {}

\* C19 as stated: once the checks are over, a credential or a channel
\* identifier that is missing or malformed has made the process exit at once
C19_BadCredentialsExit ==
    (/\ pc # "boot"
     /\ \/ Missing(BOT_TOKEN) \/ ~TokenForm(BOT_TOKEN)
        \/ Missing(CHAT_ID) \/ ~IntegerText(CHAT_ID))
    => ExitedAtOnce

\* C19 as amended: once the checks are over, the process has exited at once
\* exactly if the credential is missing or the channel identifier is missing
\* or no integer; the exit is taken from the checks only, and nothing follows
\* it
C19_MissingCredentialsExit ==
    /\ [](pc # "boot" =>
            ((Missing(BOT_TOKEN) \/ Missing(CHAT_ID) \/ ~IntegerText(CHAT_ID))
               <=> pc = "exit"))
    /\ [](pc = "exit" => ExitedAtOnce)
    /\ [](exit_status # NoneId => pc = "exit")
    /\ [][pc' = "exit" => pc = "boot"]_vars
    /\ [][pc # "exit"]_vars

\* C19 witness: the credential is set and the channel identifier is no
\* integer; the process has exited
C19_Witness ==
    /\ pc = "exit"
    /\ BOT_TOKEN = TOKEN
    /\ CHAT_ID = <<"4", "x">>
    /\ exit_status = 1

\* the job in processing, as it was popped
CurrentJob == dequeued[Len(dequeued)]

\* C20: a step taken while a job is in processing leaves the queue, the
\* cursor, the polled batch and the history of appended jobs as they are and
\* leads to the job's processing again or to the end of the iteration, never
\* to a poll; the job's link and file name stay what the queue step made them
\* (the job's own name, or the default of that dequeue), so every attempt
\* copies to the same name; and the "Queue Remaining" of the terminal
\* notification is that of the "Starting download" notification
C20_FrameDuringJob ==
    /\ [][InProcessing =>
            /\ UNCHANGED <<queue, last_update_id, updates, enqueued, dequeued,
                           queuedNotes>>
            /\ InProcessing' \/ pc' = "sleep"
            /\ InProcessing' => filename' = filename /\ m3u8_url' = m3u8_url
            /\ drive' # drive
                 => drive' \ drive = {[name |-> filename, job |-> Len(dequeued)]}
         ]_vars
    /\ [](InProcessing =>
            /\ m3u8_url = CurrentJob[1]
            /\ filename = IF CurrentJob[2] # None THEN CurrentJob[2]
                          ELSE DefaultName(Len(dequeued))
            /\ jobLog[1] = Ev("start", Len(queue)))
    /\ [](\A i \in DOMAIN jobLog :
             jobLog[i].kind \in {"success", "allfailed"}
                => /\ jobLog[1].kind = "start"
                   /\ jobLog[i].n = jobLog[1].n
                   /\ jobLog[i].n = Len(queue))

\* C20 witness: a job has succeeded on a later attempt while another job
\* waited: both notifications report one job remaining
C20_Witness ==
    /\ pc = "sleep"
    /\ Count("failed") >= 1
    /\ Count("success") = 1
    /\ jobLog[1] = Ev("start", 1)
    /\ jobLog[Len(jobLog)] = Ev("success", 1)
    /\ Len(queue) = 1

====
